---- MODULE Spec2Model ----
(***************************************************************************)
(* A model of timedmap-rs: TimedMap<K, V, TS>, a hash map whose entries    *)
(* carry an expiry instant (Value<V, TS>), read through a swappable time   *)
(* source.  The clock is the mock time source of the crate's tests: it     *)
(* stands still during a call and is advanced explicitly between calls.    *)
(*                                                                         *)
(* Option<T> is a sequence of length at most one: None is << >> and        *)
(* Some(x) is << x >>.  A HashMap is a function whose domain is the set of *)
(* keys physically present.  Every map method is an operator of the table  *)
(* and the clock value it reads, giving the table it leaves and what it    *)
(* returns; the actions of Spec apply them to the state.                   *)
(***************************************************************************)
EXTENDS Integers, Sequences, FiniteSets, Bags, TLC

\* ------------------------------------------------------------------ bounds

\* The largest lifetime a call passes (lifetimes are 0..MaxLife).
MaxLife == 2
\* The clock runs from 0 to MaxClock.
MaxClock == 3
\* extend is not called when it would push a deadline beyond MaxExpires.
MaxExpires == 6

Keys == {"a", "b"}
Vals == {1, 2}
Lifetimes == 0..MaxLife
\* The instants the properties quantify over: every deadline a call can
\* produce from a reachable table, and one more.
Instants == 0..(MaxExpires + MaxLife + 1)

VARIABLES
    inner,  \* TimedMap.inner: the table, key -> Value
    clock,  \* TS::now()
    last,   \* the last call: its name, arguments, the table and clock it
            \* started from and what it returned
    th,     \* concurrent callers: each thread's call, position and locals
    lock,   \* the RwLock around the table: who holds it
    driver  \* the periodic cleanup task of start_cleaner

vars == <<inner, clock, last, th, lock, driver>>

\* What a run of single-threaded calls leaves alone.
concVars == <<th, lock, driver>>

\* ------------------------------------------------------------------ Option

None == << >>
Some(x) == << x >>

\* ------------------------------------------------------------------ Value

\* Value::new: expires = TS::now() + lifetime.
Value_new(val, lifetime, now) == [value |-> val, expires |-> now + lifetime]

\* Faulty variant: an entry counts as expired at its deadline already.
is_expired_at_deadline(v, now) == now >= v.expires

\* Value::is_expired: TS::now() > self.expires.
is_expired(v, now) == now > v.expires

\* Value::is_expired_at: the same comparison against a given instant.
is_expired_at(v, t) == t > v.expires

\* Value::expires.
expires(v) == v.expires

\* Faulty variant: the new lifetime is counted from the old deadline.
set_expiry_from_deadline(v, lifetime, now) ==
    [v EXCEPT !.expires = @ + lifetime]

\* Value::set_expiry: expires = TS::now() + lifetime.
set_expiry(v, lifetime, now) == [v EXCEPT !.expires = now + lifetime]

\* Value::add_expiry: expires += lifetime.
add_expiry(v, lifetime) == [v EXCEPT !.expires = @ + lifetime]

\* Value::value: a copy of the inner value.
value(v) == v.value

\* Value::value_checked: the value unless expired.
value_checked(v, now) == IF is_expired(v, now) THEN None ELSE Some(value(v))

\* ----------------------------------------------------------------- HashMap

HashMap_new == [k \in {} |-> None]

HashMap_insert(m, key, v) ==
    [k \in (DOMAIN m) \cup {key} |-> IF k = key THEN v ELSE m[k]]

HashMap_remove(m, key) == [k \in (DOMAIN m) \ {key} |-> m[k]]

HashMap_get(m, key) == IF key \in DOMAIN m THEN Some(m[key]) ELSE None

\* ---------------------------------------------------------------- TimedMap
\* Each method: the table m it finds, its arguments and the value now that
\* TS::now() returns during the call; the result is [map, ret].

\* TimedMap::new_with_timesource.
new_with_timesource == HashMap_new

\* Faulty variant: an entry already stored for the key is kept.
insert_if_absent(m, key, val, lifetime, now) ==
    [map |-> IF key \in DOMAIN m THEN m
             ELSE HashMap_insert(m, key, Value_new(val, lifetime, now)),
     ret |-> None]

\* TimedMap::insert.
insert(m, key, val, lifetime, now) ==
    [map |-> HashMap_insert(m, key, Value_new(val, lifetime, now)),
     ret |-> None]

\* TimedMap::get_value_unchecked: the stored wrapper, cloned, expiry unchecked.
get_value_unchecked(m, key) == [map |-> m, ret |-> HashMap_get(m, key)]

\* Faulty variant: the removed value is returned without the expiry check.
remove_unchecked(m, key, now) ==
    LET old == HashMap_get(m, key)
    IN  [map |-> HashMap_remove(m, key),
         ret |-> IF old = None THEN None ELSE Some(value(old[1]))]

\* Faulty variant: every expired entry goes together with the key.
remove_with_expired(m, key, now) ==
    LET old == HashMap_get(m, key)
    IN  [map |-> [k \in {x \in (DOMAIN m) \ {key} : now <= m[x].expires}
                     |-> m[k]],
         ret |-> IF old = None THEN None ELSE value_checked(old[1], now)]

\* TimedMap::remove: m.remove(key).and_then(|v| v.value_checked()).
remove(m, key, now) ==
    LET old == HashMap_get(m, key)
    IN  [map |-> HashMap_remove(m, key),
         ret |-> IF old = None THEN None ELSE value_checked(old[1], now)]

\* Faulty variant: an expired entry is reported absent but left in the table.
get_value_keeps_expired(m, key, now) ==
    LET v == get_value_unchecked(m, key).ret
    IN  IF v = None THEN [map |-> m, ret |-> None]
        ELSE IF is_expired(v[1], now)
             THEN [map |-> m, ret |-> None]
             ELSE [map |-> m, ret |-> Some(v[1])]

\* TimedMap::get_value: the wrapper if present and not expired; an expired
\* entry is removed through self.remove(key).
get_value(m, key, now) ==
    LET v == get_value_unchecked(m, key).ret
    IN  IF v = None THEN [map |-> m, ret |-> None]
        ELSE IF is_expired(v[1], now)
             THEN [map |-> remove(m, key, now).map, ret |-> None]
             ELSE [map |-> m, ret |-> Some(v[1])]

\* TimedMap::get: self.get_value(key).map(|v| v.value()).
get(m, key, now) ==
    LET r == get_value(m, key, now)
    IN  [map |-> r.map,
         ret |-> IF r.ret = None THEN None ELSE Some(value(r.ret[1]))]

\* TimedMap::contains: self.get(key).is_some().
contains(m, key, now) ==
    LET r == get(m, key, now)
    IN  [map |-> r.map, ret |-> r.ret # None]

\* TimedMap::refresh.
refresh(m, key, new_lifetime, now) ==
    LET r == get_value(m, key, now)
    IN  IF r.ret = None THEN [map |-> r.map, ret |-> FALSE]
        ELSE [map |-> HashMap_insert(r.map, key,
                                     set_expiry(r.ret[1], new_lifetime, now)),
              ret |-> TRUE]

\* Faulty variant: the added lifetime is counted from now, as refresh does.
extend_from_now(m, key, added_lifetime, now) ==
    LET r == get_value(m, key, now)
    IN  IF r.ret = None THEN [map |-> r.map, ret |-> FALSE]
        ELSE [map |-> HashMap_insert(r.map, key,
                                     set_expiry(r.ret[1], added_lifetime, now)),
              ret |-> TRUE]

\* TimedMap::extend.
extend(m, key, added_lifetime, now) ==
    LET r == get_value(m, key, now)
    IN  IF r.ret = None THEN [map |-> r.map, ret |-> FALSE]
        ELSE [map |-> HashMap_insert(r.map, key,
                                     add_expiry(r.ret[1], added_lifetime)),
              ret |-> TRUE]

\* Faulty variant: every stored entry is counted.
len_unfiltered(m, now) == [map |-> m, ret |-> Cardinality(DOMAIN m)]

\* TimedMap::len: m.iter().filter(|(_, v)| !v.is_expired()).count().
len(m, now) ==
    [map |-> m,
     ret |-> Cardinality({k \in DOMAIN m : ~is_expired(m[k], now)})]

\* TimedMap::is_empty: m.len() == 0, the HashMap's own length.
is_empty(m) == [map |-> m, ret |-> Cardinality(DOMAIN m) = 0]

\* TimedMap::clear.
clear(m) == [map |-> HashMap_new, ret |-> None]

\* Faulty variant: expired entries are not filtered out.
snapshot_unfiltered(m, now) ==
    LET kept  == DOMAIN m
        pairs == {<<k, value(m[k])>> : k \in kept}
    IN  [map |-> m,
         ret |-> [p \in pairs |->
                    Cardinality({k \in kept : <<k, value(m[k])>> = p})]]

\* TimedMap::snapshot: the collection of (key, value) built from one pass over
\* the entries that are not expired, as a bag: pair -> how often it was
\* produced.
snapshot(m, now) ==
    LET kept  == {k \in DOMAIN m : ~is_expired(m[k], now)}
        pairs == {<<k, value(m[k])>> : k \in kept}
    IN  [map |-> m,
         ret |-> [p \in pairs |->
                    Cardinality({k \in kept : <<k, value(m[k])>> = p})]]

\* Faulty variant: once an expired key is found the whole table is emptied.
cleanup_clears(m, now) ==
    LET keys == {k \in DOMAIN m : is_expired_at(m[k], now)}
    IN  IF keys = {} THEN [map |-> m, ret |-> None]
        ELSE [map |-> HashMap_new, ret |-> None]

\* Faulty variant: the removal loop stops after the first collected key.
cleanup_first_only(m, now) ==
    LET keys == {k \in DOMAIN m : is_expired_at(m[k], now)}
    IN  IF keys = {} THEN [map |-> m, ret |-> None]
        ELSE [map |-> HashMap_remove(m, CHOOSE k \in keys : TRUE),
              ret |-> None]

\* <TimedMap as Cleanup>::cleanup: one TS::now(), the keys expired at it are
\* collected, and removed if there are any.
cleanup(m, now) ==
    LET keys == {k \in DOMAIN m : is_expired_at(m[k], now)}
    IN  IF keys = {} THEN [map |-> m, ret |-> None]
        ELSE [map |-> [k \in (DOMAIN m) \ keys |-> m[k]], ret |-> None]

\* ----------------------------------------------------------- state machine

NoKey == "-"

\* The record of a call.
Call(op, key, val, lifetime, ret) ==
    [op |-> op, key |-> key, val |-> val, lifetime |-> lifetime,
     pre |-> inner, at |-> clock, ret |-> ret]

\* No call has been made yet.
NoCall ==
    [op |-> "new", key |-> NoKey, val |-> 0, lifetime |-> 0,
     pre |-> new_with_timesource, at |-> 0, ret |-> None]

\* A thread that has not called anything.  ret is None until a call returns
\* a result, then Some(result).
IdleThread ==
    [pc |-> "idle", op |-> "-", key |-> NoKey, val |-> 0, lifetime |-> 0,
     v |-> None, now |-> 0, keys |-> {}, seen |-> << >>, ret |-> None]

\* RwLock::new: nobody holds the lock.
RwLock_new == [readers |-> {}, writer |-> {}]

\* No cleanup task has been started.
NoDriver ==
    [state |-> "none", interval |-> 0, wake |-> 0, mark |-> 0, now |-> 0,
     keys |-> {}, runs |-> 0, aborted |-> FALSE, cancels |-> 0,
     runs_at_abort |-> 0]

Threads == {1, 2}

Init ==
    /\ inner = new_with_timesource
    /\ clock = 0
    /\ last = NoCall
    /\ th = [t \in Threads |-> IdleThread]
    /\ lock = RwLock_new
    /\ driver = NoDriver

\* A call of a method whose result is r.
Apply(op, key, val, lifetime, r) ==
    /\ inner' = r.map
    /\ last' = Call(op, key, val, lifetime, r.ret)
    /\ UNCHANGED clock
    /\ UNCHANGED concVars

CallInsert ==
    \E key \in Keys, val \in Vals, lifetime \in Lifetimes :
        Apply("insert", key, val, lifetime,
              insert(inner, key, val, lifetime, clock))

CallGet ==
    \E key \in Keys : Apply("get", key, 0, 0, get(inner, key, clock))

CallContains ==
    \E key \in Keys :
        Apply("contains", key, 0, 0, contains(inner, key, clock))

CallRemove ==
    \E key \in Keys : Apply("remove", key, 0, 0, remove(inner, key, clock))

CallRefresh ==
    \E key \in Keys, lifetime \in Lifetimes :
        Apply("refresh", key, 0, lifetime,
              refresh(inner, key, lifetime, clock))

CallExtend ==
    \E key \in Keys, lifetime \in Lifetimes :
        /\ key \in DOMAIN inner => expires(inner[key]) + lifetime <= MaxExpires
        /\ Apply("extend", key, 0, lifetime,
                 extend(inner, key, lifetime, clock))

CallLen == Apply("len", NoKey, 0, 0, len(inner, clock))

\* Faulty variant: is_empty answers for the entries that are not expired.
CallIsEmpty_filtered ==
    Apply("is_empty", NoKey, 0, 0,
          [map |-> inner, ret |-> len(inner, clock).ret = 0])

CallIsEmpty == Apply("is_empty", NoKey, 0, 0, is_empty(inner))

CallClear == Apply("clear", NoKey, 0, 0, clear(inner))

CallSnapshot == Apply("snapshot", NoKey, 0, 0, snapshot(inner, clock))

CallGetValue ==
    \E key \in Keys :
        Apply("get_value", key, 0, 0, get_value(inner, key, clock))

\* Faulty variant: the unchecked read goes through the checked one.
CallGetValueUnchecked_checked ==
    \E key \in Keys :
        Apply("get_value_unchecked", key, 0, 0, get_value(inner, key, clock))

CallGetValueUnchecked ==
    \E key \in Keys :
        Apply("get_value_unchecked", key, 0, 0,
              get_value_unchecked(inner, key))

CallCleanup == Apply("cleanup", NoKey, 0, 0, cleanup(inner, clock))

\* MockClock::advance between two calls.
Advance ==
    /\ clock < MaxClock
    /\ clock' = clock + 1
    /\ UNCHANGED <<inner, last>>
    /\ UNCHANGED concVars

Next ==
    \/ CallInsert
    \/ CallGet
    \/ CallContains
    \/ CallRemove
    \/ CallRefresh
    \/ CallExtend
    \/ CallLen
    \/ CallIsEmpty
    \/ CallClear
    \/ CallSnapshot
    \/ CallGetValue
    \/ CallGetValueUnchecked
    \/ CallCleanup
    \/ Advance

Spec == Init /\ [][Next]_vars

\* ------------------------------------------------------- concurrent callers
\* Threads share the map.  A call is a sequence of steps: waiting for the
\* lock, the section run under it (ending with the guard's drop), and what a
\* thread does between two sections with its own copies.  TS::now() is read
\* in the step whose code reads it.

\* The clock runs from 0 to ConcMaxClock while threads interleave.
ConcMaxClock == 1

\* The lifetimes and values the concurrent callers pass.
ConcLifetimes == {0, 1}
ConcVals == {2}
\* The tables the callers start from: what inserts of value 1 at clock 0 leave.
InitTables ==
    UNION {[ks -> {Value_new(1, l, 0) : l \in ConcLifetimes}] :
             ks \in SUBSET Keys}

\* RwLock::read returns once no writer holds the lock.
can_read(l, t) == l.writer = {}
\* RwLock::write returns once nobody holds the lock.
can_write(l, t) == l.writer = {} /\ l.readers = {}
lock_read(l, t) == [l EXCEPT !.readers = @ \cup {t}]
lock_write(l, t) == [l EXCEPT !.writer = {t}]
\* Faulty variant: the read guard outlives the section.
unlock_read_leaked(l, t) == l

\* The read guard is dropped.
unlock_read(l, t) == [l EXCEPT !.readers = @ \ {t}]
\* The write guard is dropped.
unlock_write(l, t) == [l EXCEPT !.writer = @ \ {t}]

KeyedReads == {"get", "contains", "get_value"}
Rewrites == {"refresh", "extend"}
PlainReads == {"len", "is_empty", "snapshot", "get_value_unchecked"}

\* Where a call starts.
FirstPc(op) ==
    CASE op = "insert" -> "ins_lock"
      [] op = "remove" -> "rm_lock"
      [] op \in KeyedReads \cup Rewrites -> "gv_lock"
      [] op \in PlainReads -> "rd_lock"
      [] op = "clear" -> "clr_lock"
      [] op = "cleanup" -> "cu_now"

\* Thread t's record becomes r.
SetThread(t, r) == th' = [th EXCEPT ![t] = r]

\* Thread t calls a method; each thread makes one call.
Begin(t, op, key, val, lifetime) ==
    /\ th[t].pc = "idle"
    /\ SetThread(t, [IdleThread EXCEPT !.pc = FirstPc(op), !.op = op,
                        !.key = key, !.val = val, !.lifetime = lifetime])
    /\ UNCHANGED <<inner, clock, last, lock, driver>>

Start(t) ==
    \/ \E key \in Keys, val \in ConcVals, lifetime \in ConcLifetimes :
          Begin(t, "insert", key, val, lifetime)
    \/ \E op \in KeyedReads \cup {"remove", "get_value_unchecked"},
          key \in Keys :
          Begin(t, op, key, 0, 0)
    \/ \E op \in Rewrites, key \in Keys, lifetime \in ConcLifetimes :
          Begin(t, op, key, 0, lifetime)
    \/ \E op \in {"len", "is_empty", "snapshot", "clear", "cleanup"} :
          Begin(t, op, NoKey, 0, 0)

\* self.inner.read(): the thread waits until it gets the shared lock.
LockRead(t) ==
    /\ th[t].pc \in {"gv_lock", "rd_lock", "cu_lock"}
    /\ can_read(lock, t)
    /\ lock' = lock_read(lock, t)
    /\ SetThread(t, [th[t] EXCEPT !.pc =
                        CASE @ = "gv_lock" -> "gv_read"
                          [] @ = "rd_lock" -> "rd_read"
                          [] @ = "cu_lock" -> "cu_read"])
    /\ UNCHANGED <<inner, clock, last, driver>>

\* self.inner.write(): the thread waits until it gets the exclusive lock.
LockWrite(t) ==
    /\ th[t].pc \in {"ins_lock", "rm_lock", "ev_lock", "wr_lock",
                     "clr_lock", "cu_wlock"}
    /\ can_write(lock, t)
    /\ lock' = lock_write(lock, t)
    /\ SetThread(t, [th[t] EXCEPT !.pc =
                        CASE @ = "ins_lock" -> "ins_write"
                          [] @ = "rm_lock"  -> "rm_write"
                          [] @ = "ev_lock"  -> "ev_write"
                          [] @ = "wr_lock"  -> "wr_write"
                          [] @ = "clr_lock" -> "clr_write"
                          [] @ = "cu_wlock" -> "cu_write"])
    /\ UNCHANGED <<inner, clock, last, driver>>

\* insert under the exclusive lock.
InsWrite(t) ==
    /\ th[t].pc = "ins_write"
    /\ inner' = insert(inner, th[t].key, th[t].val, th[t].lifetime, clock).map
    /\ lock' = unlock_write(lock, t)
    /\ SetThread(t, [th[t] EXCEPT !.pc = "done", !.now = clock])
    /\ UNCHANGED <<clock, last, driver>>

\* remove under the exclusive lock, called by the user.
RmWrite(t) ==
    /\ th[t].pc = "rm_write"
    /\ LET r == remove(inner, th[t].key, clock)
       IN  /\ inner' = r.map
           /\ SetThread(t, [th[t] EXCEPT !.pc = "done", !.ret = Some(r.ret),
                                         !.now = clock])
    /\ lock' = unlock_write(lock, t)
    /\ UNCHANGED <<clock, last, driver>>

\* get_value_unchecked inside get_value: the entry is cloned under the shared
\* lock, which is dropped on return.
GvRead(t) ==
    /\ th[t].pc = "gv_read"
    /\ lock' = unlock_read(lock, t)
    /\ SetThread(t, [th[t] EXCEPT !.pc = "gv_check",
                        !.v = get_value_unchecked(inner, th[t].key).ret])
    /\ UNCHANGED <<inner, clock, last, driver>>

\* What a call that came through get_value returns.
Answer(op, v) ==
    CASE op = "get" -> IF v = None THEN None ELSE Some(value(v[1]))
      [] op = "contains" -> v # None
      [] op = "get_value" -> v
      [] op \in Rewrites -> v # None

\* get_value after the read: absent, expired (to be removed) or returned; the
\* copy's expiry is checked against TS::now() with no lock held.
GvCheck(t) ==
    /\ th[t].pc = "gv_check"
    /\ LET r == th[t]
       IN  IF r.v = None
           THEN SetThread(t, [r EXCEPT !.pc = "done",
                                       !.ret = Some(Answer(r.op, None))])
           ELSE IF is_expired(r.v[1], clock)
           THEN SetThread(t, [r EXCEPT !.pc = "ev_lock", !.now = clock])
           ELSE IF r.op \in KeyedReads
           THEN SetThread(t, [r EXCEPT !.pc = "done", !.now = clock,
                                       !.ret = Some(Answer(r.op, r.v))])
           ELSE SetThread(t, [r EXCEPT !.pc = "wr_lock", !.now = clock])
    /\ UNCHANGED <<inner, clock, last, lock, driver>>

\* self.remove(key) inside get_value: the key found expired is removed.
EvWrite(t) ==
    /\ th[t].pc = "ev_write"
    /\ inner' = remove(inner, th[t].key, clock).map
    /\ lock' = unlock_write(lock, t)
    /\ SetThread(t, [th[t] EXCEPT !.pc = "done",
                                  !.ret = Some(Answer(th[t].op, None))])
    /\ UNCHANGED <<clock, last, driver>>

\* The copy that refresh or extend writes back.
Rewritten(op, v, lifetime, now) ==
    IF op = "refresh" THEN set_expiry(v, lifetime, now)
    ELSE add_expiry(v, lifetime)

\* Faulty variant: the stored entry is updated in place, if it is there.
WrWrite_in_place(t) ==
    /\ th[t].pc = "wr_write"
    /\ inner' = IF th[t].key \in DOMAIN inner
                THEN HashMap_insert(inner, th[t].key,
                         Rewritten(th[t].op, inner[th[t].key],
                                   th[t].lifetime, clock))
                ELSE inner
    /\ lock' = unlock_write(lock, t)
    /\ SetThread(t, [th[t] EXCEPT !.pc = "done", !.now = clock,
                                  !.ret = Some(Answer(th[t].op, th[t].v))])
    /\ UNCHANGED <<clock, last, driver>>

\* refresh and extend under the exclusive lock: the copy read before gets
\* its new expiry and is inserted under the key.
WrWrite(t) ==
    /\ th[t].pc = "wr_write"
    /\ inner' = HashMap_insert(inner, th[t].key,
                    Rewritten(th[t].op, th[t].v[1], th[t].lifetime, clock))
    /\ lock' = unlock_write(lock, t)
    /\ SetThread(t, [th[t] EXCEPT !.pc = "done", !.now = clock,
                                  !.ret = Some(Answer(th[t].op, th[t].v))])
    /\ UNCHANGED <<clock, last, driver>>

\* len and snapshot pass over the entries of the table.
Scans == {"len", "snapshot"}

\* len and snapshot under the shared lock, one entry of m.iter(): the
\* filter calls v.is_expired(), which reads TS::now() for this entry.
\* th[t].keys are the keys visited and th[t].seen the entries kept.
RdScan(t) ==
    /\ th[t].pc = "rd_read"
    /\ th[t].op \in Scans
    /\ \E k \in (DOMAIN inner) \ th[t].keys :
          SetThread(t, [th[t] EXCEPT
             !.keys = @ \cup {k},
             !.now = clock,
             !.seen = IF is_expired(inner[k], clock) THEN @
                      ELSE [j \in (DOMAIN @) \cup {k} |->
                               IF j = k THEN inner[k] ELSE @[j]]])
    /\ UNCHANGED <<inner, clock, last, lock, driver>>

\* What len and snapshot make of the entries kept: count() and collect(),
\* the collection as a bag.
Scanned(op, kept) ==
    IF op = "len" THEN Cardinality(DOMAIN kept)
    ELSE [p \in {<<k, value(kept[k])>> : k \in DOMAIN kept} |->
             Cardinality({k \in DOMAIN kept : <<k, value(kept[k])>> = p})]

\* The end of a read-locked section: len and snapshot return once every
\* entry has been visited, is_empty and get_value_unchecked after their one
\* access; the shared lock is dropped.
RdRead(t) ==
    /\ th[t].pc = "rd_read"
    /\ th[t].op \in Scans => DOMAIN inner \subseteq th[t].keys
    /\ lock' = unlock_read(lock, t)
    /\ SetThread(t, [th[t] EXCEPT !.pc = "done", !.ret = Some(
          CASE th[t].op \in Scans -> Scanned(th[t].op, th[t].seen)
            [] th[t].op = "is_empty" -> is_empty(inner).ret
            [] th[t].op = "get_value_unchecked" ->
                   get_value_unchecked(inner, th[t].key).ret)])
    /\ UNCHANGED <<inner, clock, last, driver>>

\* clear under the exclusive lock.
ClrWrite(t) ==
    /\ th[t].pc = "clr_write"
    /\ inner' = clear(inner).map
    /\ lock' = unlock_write(lock, t)
    /\ SetThread(t, [th[t] EXCEPT !.pc = "done", !.now = clock])
    /\ UNCHANGED <<clock, last, driver>>

\* cleanup: let now = TS::now().
CuNow(t) ==
    /\ th[t].pc = "cu_now"
    /\ SetThread(t, [th[t] EXCEPT !.pc = "cu_lock", !.now = clock])
    /\ UNCHANGED <<inner, clock, last, lock, driver>>

\* cleanup under the shared lock: the keys expired at now are collected
\* (seen keeps the entries they had); with none the call returns.
CuRead(t) ==
    /\ th[t].pc = "cu_read"
    /\ lock' = unlock_read(lock, t)
    /\ LET keys == {k \in DOMAIN inner : is_expired_at(inner[k], th[t].now)}
       IN  SetThread(t, [th[t] EXCEPT
                !.pc = IF keys = {} THEN "done" ELSE "cu_wlock",
                !.keys = keys,
                !.seen = [k \in keys |-> inner[k]]])
    /\ UNCHANGED <<inner, clock, last, driver>>

\* Faulty variant: a collected key is removed only if its entry is still
\* expired at now.
remove_collected_rechecked(m, keys, now) ==
    [k \in (DOMAIN m) \ {x \in keys \cap DOMAIN m : is_expired_at(m[x], now)}
        |-> m[k]]

\* The table after cleanup's removal loop over the collected keys; now is
\* in scope and not consulted.
remove_collected(m, keys, now) == [k \in (DOMAIN m) \ keys |-> m[k]]

\* cleanup under the exclusive lock: every collected key is removed.
CuWrite(t) ==
    /\ th[t].pc = "cu_write"
    /\ inner' = remove_collected(inner, th[t].keys, th[t].now)
    /\ lock' = unlock_write(lock, t)
    /\ SetThread(t, [th[t] EXCEPT !.pc = "done"])
    /\ UNCHANGED <<clock, last, driver>>

\* One step of thread t inside a call.
Step(t) ==
    \/ LockRead(t)
    \/ LockWrite(t)
    \/ InsWrite(t)
    \/ RmWrite(t)
    \/ GvRead(t)
    \/ GvCheck(t)
    \/ EvWrite(t)
    \/ WrWrite(t)
    \/ RdScan(t)
    \/ RdRead(t)
    \/ ClrWrite(t)
    \/ CuNow(t)
    \/ CuRead(t)
    \/ CuWrite(t)

\* Time passes while threads run.
Tick ==
    /\ clock < ConcMaxClock
    /\ clock' = clock + 1
    /\ UNCHANGED <<inner, last, th, lock, driver>>

InitConc ==
    /\ inner \in InitTables
    /\ clock = 0
    /\ last = NoCall
    /\ th = [t \in Threads |-> IdleThread]
    /\ lock = RwLock_new
    /\ driver = NoDriver

NextConc ==
    \/ \E t \in Threads : Start(t)
    \/ \E t \in Threads : Step(t)
    \/ Tick

SpecConc == InitConc /\ [][NextConc]_vars

\* The scheduler lets every thread run, and a thread that waits for the lock
\* gets it if it is free again and again.
SpecConcFair ==
    /\ SpecConc
    /\ \A t \in Threads :
          /\ SF_vars(LockRead(t) \/ LockWrite(t))
          /\ WF_vars(Step(t))

\* ------------------------------------------- two extends of one key
\* Both threads call extend on the same key while its entry is not expired
\* and nothing else touches the map; last keeps the table and the clock
\* value the two calls started from.

\* Thread 1 calls extend(key, l1) and thread 2 extend(key, l2).
CallExtends(key, l1, l2) ==
    /\ \A t \in Threads : th[t].pc = "idle"
    /\ key \in DOMAIN inner
    /\ ~is_expired(inner[key], clock)
    /\ th' = [t \in Threads |->
                [IdleThread EXCEPT !.pc = FirstPc("extend"),
                                   !.op = "extend",
                                   !.key = key,
                                   !.lifetime = IF t = 1 THEN l1 ELSE l2]]
    /\ last' = [NoCall EXCEPT !.op = "extend", !.key = key, !.pre = inner,
                              !.at = clock]
    /\ UNCHANGED <<inner, clock, lock, driver>>

\* One step of thread t inside extend.
ExtendStep(t) ==
    \/ LockRead(t)
    \/ GvRead(t)
    \/ GvCheck(t)
    \/ LockWrite(t)
    \/ EvWrite(t)
    \/ WrWrite(t)

NextExtend ==
    \/ \E key \in Keys, l1, l2 \in ConcLifetimes : CallExtends(key, l1, l2)
    \/ \E t \in Threads : ExtendStep(t)
    \/ Tick

SpecExtend == InitConc /\ [][NextExtend]_vars

\* ------------------------------------------------- the periodic driver
\* start_cleaner(m, interval) spawns a task that loops over
\* sleep(interval).await; m.cleanup(), and returns a closure calling
\* job.abort().  driver.state is the task's position: "spawned" (not polled
\* yet), "sleeping" until driver.wake, "running" and "removing" inside
\* m.cleanup() (before and after the keys are collected), "returned" when
\* m.cleanup() has returned and sleep has not been called yet, or
\* "stopped" once the runtime has dropped the aborted task.  driver.mark is
\* the instant start_cleaner was called or the latest cleanup began,
\* driver.runs counts the cleanup calls begun, driver.cancels the calls of
\* the closure, and driver.runs_at_abort is driver.runs at the first of them.

\* The longest interval start_cleaner is given (intervals are 0..MaxInterval).
MaxInterval == 2
\* The driver begins at most MaxRuns cleanups.
MaxRuns == 3
\* The cancel closure is called at most MaxCancels times.
MaxCancels == 2

Intervals == 0..MaxInterval

\* start_cleaner: the task is spawned and the cancel closure returned.
StartCleaner(interval) ==
    /\ driver.state = "none"
    /\ driver' = [driver EXCEPT !.state = "spawned", !.interval = interval,
                                !.mark = clock]
    /\ UNCHANGED <<inner, clock, last, th, lock>>

\* The loop calls sleep(interval) and awaits it: when the task is polled for
\* the first time, which an abort before that prevents, and each time
\* m.cleanup() has returned.  The sleep ends interval after this call.
DriverSleep ==
    /\ driver.state \in {"spawned", "returned"}
    /\ driver.state = "spawned" => ~driver.aborted
    /\ driver' = [driver EXCEPT !.state = "sleeping",
                                !.wake = clock + driver.interval]
    /\ UNCHANGED <<inner, clock, last, th, lock>>

\* Faulty variant: the sleep completes for a task that was aborted.
DriverWake_after_abort ==
    /\ driver.state = "sleeping"
    /\ clock >= driver.wake
    /\ driver.runs < MaxRuns
    /\ driver' = [driver EXCEPT !.state = "running", !.now = clock,
                                !.mark = clock, !.runs = @ + 1]
    /\ UNCHANGED <<inner, clock, last, th, lock>>

\* The sleep has elapsed and the task, not aborted, is polled: m.cleanup()
\* begins and reads the time.
DriverWake ==
    /\ driver.state = "sleeping"
    /\ ~driver.aborted
    /\ clock >= driver.wake
    /\ driver.runs < MaxRuns
    /\ driver' = [driver EXCEPT !.state = "running", !.now = clock,
                                !.mark = clock, !.runs = @ + 1]
    /\ UNCHANGED <<inner, clock, last, th, lock>>

\* m.cleanup() under the shared lock: the keys expired at its now are
\* collected and the lock is dropped; with none cleanup returns.
DriverCollect ==
    /\ driver.state = "running"
    /\ LET keys == {k \in DOMAIN inner : is_expired_at(inner[k], driver.now)}
       IN  driver' = IF keys = {}
                     THEN [driver EXCEPT !.state = "returned", !.keys = {}]
                     ELSE [driver EXCEPT !.state = "removing",
                                         !.keys = keys]
    /\ UNCHANGED <<inner, clock, last, th, lock>>

\* m.cleanup() under the exclusive lock: every collected key is removed, the
\* lock is dropped and cleanup returns.
DriverRemove ==
    /\ driver.state = "removing"
    /\ inner' = remove_collected(inner, driver.keys, driver.now)
    /\ driver' = [driver EXCEPT !.state = "returned", !.keys = {}]
    /\ UNCHANGED <<clock, last, th, lock>>

\* The closure start_cleaner returned is called: job.abort().
Cancel ==
    /\ driver.state # "none"
    /\ driver.cancels < MaxCancels
    /\ driver' = [driver EXCEPT
                     !.aborted = TRUE,
                     !.cancels = @ + 1,
                     !.runs_at_abort = IF driver.aborted THEN @
                                       ELSE driver.runs]
    /\ UNCHANGED <<inner, clock, last, th, lock>>

\* The runtime drops the aborted task where it is suspended.
DriverStop ==
    /\ driver.state \in {"spawned", "sleeping"}
    /\ driver.aborted
    /\ driver' = [driver EXCEPT !.state = "stopped"]
    /\ UNCHANGED <<inner, clock, last, th, lock>>

\* A user of the map inserts while the driver runs.
UserInsert(key, lifetime) ==
    /\ inner' = insert(inner, key, 1, lifetime, clock).map
    /\ UNCHANGED <<clock, last, th, lock, driver>>

NextDriver ==
    \/ \E interval \in Intervals : StartCleaner(interval)
    \/ DriverSleep
    \/ DriverWake
    \/ DriverCollect
    \/ DriverRemove
    \/ Cancel
    \/ DriverStop
    \/ \E key \in Keys, lifetime \in ConcLifetimes : UserInsert(key, lifetime)
    \/ Advance

SpecDriver == Init /\ [][NextDriver]_vars

\* The state is well formed.
TypeOK ==
    /\ DOMAIN inner \subseteq Keys
    /\ \A k \in DOMAIN inner :
          /\ inner[k].value \in Vals
          /\ inner[k].expires \in 0..MaxExpires
    /\ clock \in 0..MaxClock

\* ------------------------------------------------------------- properties
\* The properties read the record of the last call: the table last.pre and
\* the clock value last.at it started from, its arguments, its result
\* last.ret, and the table inner it left.

\* Key k is stored in m and its deadline has not passed at now.
Live(m, k, now) == k \in DOMAIN m /\ now <= m[k].expires

\* Key k is stored in m and its deadline has passed at now.
Stale(m, k, now) == k \in DOMAIN m /\ now > m[k].expires

\* C1: get(k) returns Some(v) exactly when the table holds (k -> v, d) with
\* now <= d, and then leaves the table unchanged; on an entry with now > d it
\* returns None and the table has no entry for k afterwards; on an absent key
\* it returns None and changes nothing.  contains(k) is get(k).is_some(), with
\* the same effect on the table.
C1_GetEvictsOnRead ==
    last.op \in {"get", "contains"} =>
        LET k   == last.key
            m   == last.pre
            now == last.at
            expected == IF Live(m, k, now) THEN Some(m[k].value) ELSE None
        IN  /\ last.op = "get" => last.ret = expected
            /\ last.op = "contains" => last.ret = (expected # None)
            /\ Live(m, k, now) => inner = m
            /\ Stale(m, k, now) => k \notin DOMAIN inner
            /\ k \notin DOMAIN m => inner = m

\* A get found an expired entry, returned None and removed it.
C1_Witness ==
    /\ last.op = "get"
    /\ Stale(last.pre, last.key, last.at)
    /\ last.ret = None
    /\ last.key \notin DOMAIN inner

\* C2: an entry created or reset at time t with lifetime L has deadline t + L,
\* is not expired at any now <= t + L and is expired at every now > t + L; an
\* entry of lifetime zero is readable at the instant of its creation and
\* expired at every later instant.
C2_ExpiryIsStrict ==
    (last.op = "insert" \/ (last.op = "refresh" /\ last.ret = TRUE)) =>
        LET k == last.key
            e == inner[k]
            d == last.at + last.lifetime
        IN  /\ expires(e) = d
            /\ \A now \in Instants :
                  /\ is_expired(e, now) <=> now > d
                  /\ now <= d => value_checked(e, now) = Some(e.value)
                  /\ now > d => value_checked(e, now) = None
            /\ last.lifetime = 0 =>
                  /\ get(inner, k, last.at).ret = Some(e.value)
                  /\ \A now \in Instants :
                        now > last.at => get(inner, k, now).ret = None

\* An entry of lifetime zero, still stored, at a later instant.
C2_Witness ==
    /\ last.op = "insert"
    /\ last.lifetime = 0
    /\ clock > last.at
    /\ last.key \in DOMAIN inner
    /\ is_expired(inner[last.key], clock)

\* C3: insert(k, v, L) at clock value t overwrites whatever the table held for
\* k: afterwards the table maps k to (v, t + L), and get(k) returns Some(v)
\* at every now <= t + L (from t on).
C3_InsertOverwrites ==
    last.op = "insert" =>
        LET k == last.key
            d == last.at + last.lifetime
        IN  /\ k \in DOMAIN inner
            /\ inner[k] = [value |-> last.val, expires |-> d]
            /\ \A now \in Instants :
                  (last.at <= now /\ now <= d) =>
                      get(inner, k, now).ret = Some(last.val)

\* An insert of lifetime zero replaced an expired entry holding another value.
C3_Witness ==
    /\ last.op = "insert"
    /\ last.lifetime = 0
    /\ Stale(last.pre, last.key, last.at)
    /\ last.pre[last.key].value # last.val

\* C4: remove(k) deletes the entry for k whenever one is present, and returns
\* Some(v) only when that entry was not expired at the call; for an expired
\* entry and for an absent key it returns None.  Afterwards the table has no
\* entry for k and contains(k) is false.
C4_RemoveDeletes ==
    last.op = "remove" =>
        LET k   == last.key
            m   == last.pre
            now == last.at
        IN  /\ k \notin DOMAIN inner
            /\ last.ret = IF Live(m, k, now) THEN Some(m[k].value) ELSE None
            /\ \A t \in Instants : contains(inner, k, t).ret = FALSE

\* A remove deleted an expired entry and returned None.
C4_Witness ==
    /\ last.op = "remove"
    /\ Stale(last.pre, last.key, last.at)
    /\ last.ret = None
    /\ last.key \notin DOMAIN inner

\* C5: refresh(k, L2) at clock value now returns false when k is absent or
\* expired, and then the table has no entry for k; otherwise it returns true,
\* keeps the stored value and sets the deadline to now + L2, whatever the
\* deadline was.
C5_RefreshResets ==
    last.op = "refresh" =>
        LET k   == last.key
            m   == last.pre
            now == last.at
        IN  /\ last.ret = Live(m, k, now)
            /\ ~Live(m, k, now) => k \notin DOMAIN inner
            /\ Live(m, k, now) =>
                  /\ k \in DOMAIN inner
                  /\ inner[k] = [value   |-> m[k].value,
                                 expires |-> now + last.lifetime]

\* A refresh returned true and made the deadline earlier than it was.
C5_Witness ==
    /\ last.op = "refresh"
    /\ last.ret = TRUE
    /\ inner[last.key].expires < last.pre[last.key].expires

\* C6: extend(k, L3) returns false when k is absent or expired at the call,
\* and then the table has no entry for k (an expired entry is evicted, never
\* revived); otherwise it returns true, keeps the stored value and sets the
\* deadline to old_deadline + L3 whatever the clock shows, and a further
\* extend(k, L4) while the entry is live gives old_deadline + L3 + L4.
C6_ExtendCompounds ==
    last.op = "extend" =>
        LET k   == last.key
            m   == last.pre
            now == last.at
        IN  /\ last.ret = Live(m, k, now)
            /\ ~Live(m, k, now) => k \notin DOMAIN inner
            /\ Live(m, k, now) =>
                  /\ k \in DOMAIN inner
                  /\ inner[k] = [value   |-> m[k].value,
                                 expires |-> m[k].expires + last.lifetime]
                  /\ \A l4 \in Lifetimes, t \in Instants :
                        (now <= t /\ Live(inner, k, t)) =>
                            LET r == extend(inner, k, l4, t)
                            IN  /\ r.ret = TRUE
                                /\ r.map[k] =
                                     [value   |-> m[k].value,
                                      expires |-> m[k].expires
                                                  + last.lifetime + l4]

\* An extend by a positive lifetime returned true on an entry whose deadline
\* lay further ahead than any insert or refresh up to then could have put
\* it: an earlier extend had made it, and the clock was past its start.
C6_Witness ==
    /\ last.op = "extend"
    /\ last.ret = TRUE
    /\ last.lifetime > 0
    /\ last.at > 0
    /\ last.pre[last.key].expires > last.at + MaxLife
    /\ inner[last.key].expires = last.pre[last.key].expires + last.lifetime

\* C7: len() at clock value now returns the number of table entries whose
\* deadline d satisfies now <= d, in the call just made and in every
\* reachable state.
C7_LenCountsLive ==
    /\ last.op = "len" =>
          last.ret = Cardinality({k \in Keys : Live(last.pre, k, last.at)})
    /\ len(inner, clock).ret = Cardinality({k \in Keys : Live(inner, k, clock)})

\* len() returned 1 for a table of two entries, one of them expired.
C7_Witness ==
    /\ last.op = "len"
    /\ last.ret = 1
    /\ Cardinality(DOMAIN last.pre) = 2
    /\ \E k \in Keys : Stale(last.pre, k, last.at)

\* C8: is_empty() returns true exactly when the table has no physical entry,
\* expired or not.
C8_IsEmptyIsPhysical ==
    /\ last.op = "is_empty" => last.ret = (DOMAIN last.pre = {})
    /\ is_empty(inner).ret = (DOMAIN inner = {})

\* is_empty() returned false for a table whose only entry is expired and
\* has not been read, removed or swept: len() is 0 there.
C8_Witness ==
    /\ last.op = "is_empty"
    /\ last.ret = FALSE
    /\ Cardinality(DOMAIN inner) = 1
    /\ \A k \in DOMAIN inner : Stale(inner, k, clock)
    /\ len(inner, clock).ret = 0

\* C9: is_empty() is true exactly when len() is 0, that is when the map holds
\* no entry that is not expired, in every reachable state and at every clock
\* value.
C9_IsEmptyIffLenZero ==
    last.op = "is_empty" =>
        (last.ret = TRUE <=> len(last.pre, last.at).ret = 0)

\* C10: snapshot() at clock value now returns the (key, value) pairs of the
\* entries with now <= deadline, each once, and nothing else; its size is
\* what len() returns at the same instant.
C10_SnapshotIsLiveEntries ==
    last.op = "snapshot" =>
        LET m    == last.pre
            now  == last.at
            live == {k \in Keys : Live(m, k, now)}
        IN  /\ IsABag(last.ret)
            /\ BagToSet(last.ret) = {<<k, m[k].value>> : k \in live}
            /\ \A p \in BagToSet(last.ret) : CopiesIn(p, last.ret) = 1
            /\ BagCardinality(last.ret) = len(m, now).ret

\* A snapshot of a table of two entries, one expired, holds the other one.
C10_Witness ==
    /\ last.op = "snapshot"
    /\ Cardinality(DOMAIN last.pre) = 2
    /\ \E k \in Keys : Stale(last.pre, k, last.at)
    /\ BagCardinality(last.ret) = 1

\* C11: len(), is_empty(), snapshot() and get_value_unchecked(k) leave the
\* table as it was, expired entries included, and get_value_unchecked(k)
\* returns the stored wrapper whenever k is physically present.
C11_ReadsLeaveTable ==
    last.op \in {"len", "is_empty", "snapshot", "get_value_unchecked"} =>
        /\ inner = last.pre
        /\ last.op = "get_value_unchecked" =>
              last.ret = IF last.key \in DOMAIN last.pre
                         THEN Some(last.pre[last.key]) ELSE None

\* get_value_unchecked returned the wrapper of an expired entry and left it.
C11_Witness ==
    /\ last.op = "get_value_unchecked"
    /\ Stale(last.pre, last.key, last.at)
    /\ last.ret = Some(last.pre[last.key])
    /\ last.key \in DOMAIN inner

\* C12: with no concurrent call, cleanup() at clock value now removes exactly
\* the entries with now > deadline and leaves every other entry as it was.
C12_CleanupRemovesExpired ==
    last.op = "cleanup" =>
        LET m   == last.pre
            now == last.at
        IN  /\ DOMAIN inner = {k \in DOMAIN m : now <= m[k].expires}
            /\ \A k \in DOMAIN inner : inner[k] = m[k]

\* A cleanup removed one entry and kept another that was not expired.
C12_Witness ==
    /\ last.op = "cleanup"
    /\ \E k \in DOMAIN last.pre : k \notin DOMAIN inner
    /\ \E k \in DOMAIN last.pre : k \in DOMAIN inner

\* C13: a second cleanup() right after a cleanup(), at the same clock value
\* and with no call between them, removes nothing: the table stays as the
\* first call left it.
C13_CleanupIdempotent ==
    [][(/\ last.op = "cleanup"
        /\ last.at = clock
        /\ last'.op = "cleanup"
        /\ clock' = clock) => inner' = inner]_vars

\* A cleanup that removed two expired entries.
C13_Witness ==
    /\ last.op = "cleanup"
    /\ Cardinality(DOMAIN last.pre) = 2
    /\ \A k \in DOMAIN last.pre : Stale(last.pre, k, last.at)
    /\ DOMAIN inner = {}

\* --------------------------------------------- properties of concurrent runs

\* Thread t takes the step that ends the section at pc.
Leaves(t, pc) == th[t].pc = pc /\ th'[t].pc # pc

\* Both threads have returned from their calls.
AllDone == \A t \in Threads : th[t].pc = "done"

\* C14 as stated: a key leaves the table only in a remove or clear call, or
\* when the entry stored for it is expired (now > its deadline) at the moment
\* a lazy eviction or a sweep deletes it.
C14_OnlyExpiredEvicted ==
    [][\A k \in Keys :
          (k \in DOMAIN inner /\ k \notin DOMAIN inner') =>
              \/ \E t \in Threads : Leaves(t, "rm_write") /\ th[t].key = k
              \/ \E t \in Threads : Leaves(t, "clr_write")
              \/ clock > inner[k].expires]_vars

\* C14, amended: a key leaves the table only in a remove or clear call, or
\* in the deletion step of a lazy eviction or a sweep that had found the
\* entry then stored for the key expired at its check (check instant >
\* deadline); the entry deleted is that one, and expired, unless it was
\* rewritten between the check and the deletion.
C14_EvictedWasSeenExpired ==
    [][\A k \in Keys :
          (k \in DOMAIN inner /\ k \notin DOMAIN inner') =>
              \/ \E t \in Threads : Leaves(t, "rm_write") /\ th[t].key = k
              \/ \E t \in Threads : Leaves(t, "clr_write")
              \/ \E t \in Threads :
                    /\ Leaves(t, "ev_write")
                    /\ th[t].key = k
                    /\ th[t].v # None
                    /\ th[t].now > th[t].v[1].expires
                    /\ th[t].now <= clock
                    /\ inner[k] = th[t].v[1] => clock > inner[k].expires
              \/ \E t \in Threads :
                    /\ Leaves(t, "cu_write")
                    /\ k \in th[t].keys
                    /\ th[t].now > th[t].seen[k].expires
                    /\ th[t].now <= clock
                    /\ inner[k] = th[t].seen[k] => clock > inner[k].expires]_vars

\* A read found its copy of the entry expired, an insert of the same key
\* committed, and the read's eviction then deleted the inserted entry while
\* it was not expired.
C14_Witness ==
    /\ AllDone
    /\ \E t, u \in Threads :
          /\ th[t].op \in KeyedReads \cup Rewrites
          /\ th[t].v # None
          /\ th[t].now > th[t].v[1].expires
          /\ th[u].op = "insert"
          /\ th[u].key = th[t].key
          /\ clock <= th[u].now + th[u].lifetime
          /\ th[t].key \notin DOMAIN inner

\* Some caller has found key k expired and is about to remove it.
BeingRemoved(k) ==
    \E t \in Threads :
        \/ th[t].pc \in {"ev_lock", "ev_write"} /\ th[t].key = k
        \/ th[t].pc \in {"cu_wlock", "cu_write"} /\ k \in th[t].keys

\* C15 as stated: whenever no lock is held, every entry of the table has its
\* deadline strictly after now or is being removed by the caller that found
\* it expired.
C15_EntriesAheadOrBeingRemoved ==
    lock = RwLock_new =>
        \A k \in DOMAIN inner : inner[k].expires > clock \/ BeingRemoved(k)

\* C15, amended: whenever no lock is held, every entry of the table either
\* is not expired (now <= deadline, equality included) or is expired and
\* still stored: then get and contains report it absent, len and snapshot do
\* not count it, and the next get, contains, refresh or extend of its key,
\* remove of its key or cleanup deletes it.
C15_EntriesLiveOrLeftover ==
    lock = RwLock_new =>
        \A k \in DOMAIN inner :
            \/ clock <= inner[k].expires
            \/ /\ clock > inner[k].expires
               /\ get(inner, k, clock) =
                      [map |-> HashMap_remove(inner, k), ret |-> None]
               /\ contains(inner, k, clock) =
                      [map |-> HashMap_remove(inner, k), ret |-> FALSE]
               /\ \A l \in Lifetimes :
                     /\ refresh(inner, k, l, clock) =
                            [map |-> HashMap_remove(inner, k), ret |-> FALSE]
                     /\ extend(inner, k, l, clock) =
                            [map |-> HashMap_remove(inner, k), ret |-> FALSE]
               /\ remove(inner, k, clock) =
                      [map |-> HashMap_remove(inner, k), ret |-> None]
               /\ k \notin DOMAIN cleanup(inner, clock).map
               /\ len(inner, clock).ret < Cardinality(DOMAIN inner)
               /\ \A p \in BagToSet(snapshot(inner, clock).ret) : p[1] # k

\* No lock is held, a get of another key has returned its value, and an
\* expired entry sits in the table with nobody removing it.
C15_Witness ==
    /\ lock = RwLock_new
    /\ \E t \in Threads, k \in DOMAIN inner :
          /\ th[t].pc = "done"
          /\ th[t].op = "get"
          /\ th[t].ret \in {Some(Some(v)) : v \in Vals}
          /\ th[t].key # k
          /\ clock > inner[k].expires
          /\ ~BeingRemoved(k)

\* The driver begins a cleanup in this step.
CleanupBegins == driver'.runs # driver.runs

\* C16: start_cleaner invokes no cleanup; a cleanup begins only when at
\* least the interval has passed since start_cleaner was called and since
\* the previous cleanup began; once cancel has been called no cleanup
\* begins; a call of cancel leaves the table as it is, and a further call,
\* also after the task has stopped, is possible and changes nothing.
C16_CleanupEveryInterval ==
    /\ [](driver.state \in {"none", "spawned"} => driver.runs = 0)
    /\ [](driver.aborted => driver.runs = driver.runs_at_abort)
    /\ []((driver.state # "none" /\ driver.cancels < MaxCancels) =>
             ENABLED Cancel)
    /\ [][/\ (driver.state = "none" /\ driver'.state # "none") =>
                /\ ~CleanupBegins
                /\ inner' = inner
          /\ CleanupBegins =>
                /\ driver'.runs = driver.runs + 1
                /\ clock >= driver.mark + driver.interval
                /\ ~driver.aborted
                /\ inner' = inner
          /\ driver'.cancels # driver.cancels =>
                /\ inner' = inner
                /\ driver'.runs = driver.runs
                /\ driver'.state = driver.state
                /\ driver.aborted =>
                      driver' = [driver EXCEPT !.cancels = @ + 1]]_vars

\* The driver has swept once, cancel was called twice, the task has stopped,
\* the interval has passed again and an expired entry stays in the table.
C16_Witness ==
    /\ driver.state = "stopped"
    /\ driver.interval > 0
    /\ driver.runs = 1
    /\ driver.cancels = 2
    /\ clock >= driver.wake
    /\ \E k \in DOMAIN inner : clock > inner[k].expires

\* A thread is inside a call.
Pending(t) == th[t].pc \notin {"idle", "done"}

\* A thread is waiting for the lock.
Waiting(t) ==
    th[t].pc \in {"gv_lock", "rd_lock", "cu_lock", "ins_lock", "rm_lock",
                  "ev_lock", "wr_lock", "clr_lock", "cu_wlock"}

\* C17: a thread that requests the lock holds none, some thread inside a
\* call can always take a step, and under fair scheduling every call that
\* was started returns.
C17_EveryCallReturns ==
    /\ [](\A t \in Threads :
            Waiting(t) => t \notin lock.readers \cup lock.writer)
    /\ []((\E t \in Threads : Pending(t)) =>
            \E t \in Threads : ENABLED Step(t))
    /\ \A t \in Threads : Pending(t) ~> (th[t].pc = "done")

\* A read that found its entry expired waits for the exclusive lock, which
\* it cannot get while the other thread holds the shared lock.
C17_Witness ==
    /\ \E t \in Threads :
          /\ th[t].pc = "ev_lock"
          /\ lock.readers # {}
          /\ ~ENABLED LockWrite(t)

\* C18: the exclusive phase of cleanup removes every collected key that is
\* in the table, whatever the entry stored for it then is.
C18_SweepRemovesByKey ==
    [][\A t \in Threads :
          Leaves(t, "cu_write") =>
              /\ DOMAIN inner' = (DOMAIN inner) \ th[t].keys
              /\ \A k \in DOMAIN inner' : inner'[k] = inner[k]]_vars

\* cleanup collected k as expired, a refresh of k whose check had passed
\* before the deadline committed a deadline in the future and returned true,
\* and cleanup then removed k.
C18_Witness ==
    /\ AllDone
    /\ \E t, u \in Threads :
          /\ th[t].op = "cleanup"
          /\ th[u].op = "refresh"
          /\ th[u].ret = Some(TRUE)
          /\ th[u].key \in th[t].keys
          /\ th[t].now > th[t].seen[th[u].key].expires
          /\ clock < th[u].now + th[u].lifetime
          /\ th[u].key \notin DOMAIN inner

\* The entry a refresh or extend writes back: its copy with the new expiry.
WrittenBack(t) ==
    IF th[t].op = "refresh"
    THEN [value |-> th[t].v[1].value, expires |-> th[t].now + th[t].lifetime]
    ELSE [value |-> th[t].v[1].value,
          expires |-> th[t].v[1].expires + th[t].lifetime]

\* The entry insert(k, v2, L2) of thread u stored.
Inserted(u) ==
    [value |-> th[u].val, expires |-> th[u].now + th[u].lifetime]

\* One thread has called refresh or extend and the other insert on the same
\* key, and both have returned.
RewriteAndInsertDone(t, u) ==
    /\ AllDone
    /\ th[t].op \in Rewrites
    /\ th[u].op = "insert"
    /\ th[u].key = th[t].key

\* C19 as stated: after refresh(k) or extend(k) and insert(k, v2, L2) have
\* raced, k holds (v2, insert's deadline), or the copy the refresh or extend
\* had read with its new deadline (a copy read after the insert is admitted
\* as well).
C19_FinalIsLastWrite ==
    \A t, u \in Threads :
        RewriteAndInsertDone(t, u) =>
            /\ th[t].key \in DOMAIN inner
            /\ \/ inner[th[t].key] = Inserted(u)
               \/ /\ th[t].ret = Some(TRUE)
                  /\ inner[th[t].key] = WrittenBack(t)

\* C19, amended: every write under the exclusive lock leaves its own entry
\* for k.  After refresh(k) or extend(k) and insert(k, v2, L2) have both
\* returned: if the refresh or extend returned true, k holds the last write,
\* (v2, insert's deadline) or the copy the refresh or extend had read with
\* its new deadline, and it is the latter when that copy is the inserted
\* entry; if it returned false, it had found no entry, and then k holds the
\* inserted entry, or it had found its copy expired and has removed k by
\* key, and then k is absent or holds the entry inserted after the removal.
C19_LastWriterWins ==
    /\ [][\A t \in Threads :
             /\ Leaves(t, "ins_write") =>
                   inner'[th[t].key] = [value   |-> th[t].val,
                                        expires |-> clock + th[t].lifetime]
             /\ Leaves(t, "wr_write") =>
                   inner'[th[t].key] =
                      [value   |-> th[t].v[1].value,
                       expires |-> IF th[t].op = "refresh"
                                   THEN clock + th[t].lifetime
                                   ELSE th[t].v[1].expires
                                        + th[t].lifetime]]_vars
    /\ [](\A t, u \in Threads :
            RewriteAndInsertDone(t, u) =>
                /\ th[t].ret \in {Some(TRUE), Some(FALSE)}
                /\ th[t].ret = Some(TRUE) =>
                      /\ th[t].key \in DOMAIN inner
                      /\ inner[th[t].key] \in {Inserted(u), WrittenBack(t)}
                      /\ th[t].v[1] = Inserted(u) =>
                            inner[th[t].key] = WrittenBack(t)
                /\ (th[t].ret = Some(FALSE) /\ th[t].v = None) =>
                      /\ th[t].key \in DOMAIN inner
                      /\ inner[th[t].key] = Inserted(u)
                /\ (th[t].ret = Some(FALSE) /\ th[t].v # None) =>
                      /\ th[t].now > th[t].v[1].expires
                      /\ \/ th[t].key \notin DOMAIN inner
                         \/ inner[th[t].key] = Inserted(u))

\* A refresh that returned true has put the older value back over the value
\* an insert had written.
C19_Witness ==
    /\ AllDone
    /\ \E t, u \in Threads :
          /\ th[t].op = "refresh"
          /\ th[t].ret = Some(TRUE)
          /\ th[u].op = "insert"
          /\ th[u].key = th[t].key
          /\ inner[th[t].key].value # th[u].val
          /\ inner[th[t].key] = WrittenBack(t)

\* C20: the write of a refresh or extend puts its copy under the key even
\* when the key is no longer in the table.
C20_WriteBackRevives ==
    [][\A t \in Threads :
          (Leaves(t, "wr_write") /\ th[t].key \notin DOMAIN inner) =>
              /\ th[t].key \in DOMAIN inner'
              /\ inner'[th[t].key].value = th[t].v[1].value]_vars

\* remove(k) returned the value, a refresh of k that had read the entry
\* before returned true after it, k is in the table again with no insert
\* made, and a remove(k) now returns the same value once more.
C20_Witness ==
    /\ AllDone
    /\ \E t, u \in Threads :
          /\ th[t].op = "refresh"
          /\ th[t].ret = Some(TRUE)
          /\ th[u].op = "remove"
          /\ th[u].key = th[t].key
          /\ th[u].ret \in {Some(Some(v)) : v \in Vals}
          /\ th[t].key \in DOMAIN inner
          /\ Some(remove(inner, th[t].key, clock).ret) = th[u].ret

\* Both extends of SpecExtend have returned.
ExtendsDone == last.op = "extend" /\ AllDone

\* The deadline D the entry had when the two extends were called.
ExtendBase == last.pre[last.key].expires

\* An extend has returned true after writing no later than D, and the
\* deadline it wrote has not passed: the entry it left is not expired.
ExtendedInTime ==
    \E t \in Threads :
        /\ th[t].ret = Some(TRUE)
        /\ th[t].now <= ExtendBase
        /\ clock <= WrittenBack(t).expires

\* C21 as stated, where one of the extends was in time: after two concurrent
\* extends of a key whose entry was not expired when they were called, both
\* have returned true, the value is the one stored before, and the deadline
\* is D+L1, D+L2 or D+L1+L2.
C21_BothExtendsTrue ==
    (ExtendsDone /\ ExtendedInTime) =>
        /\ \A t \in Threads : th[t].ret = Some(TRUE)
        /\ last.key \in DOMAIN inner
        /\ inner[last.key].value = last.pre[last.key].value
        /\ inner[last.key].expires \in
              {ExtendBase + th[1].lifetime, ExtendBase + th[2].lifetime,
               ExtendBase + th[1].lifetime + th[2].lifetime}

\* C21, amended: an extend returns false only if the clock had passed D when
\* it checked the copy it had read, or it found no entry, and it has then
\* removed the key: the key is absent afterwards, or holds what the other
\* extend wrote later.  When both return true the value is unchanged and the
\* deadline is the one the last writer computed from its copy: D+L of that
\* call when both had read deadline D, D+L1+L2 when one had read the other's
\* result.
C21_ExtendsFromCopies ==
    ExtendsDone =>
        \A t, u \in Threads : t # u =>
            /\ th[t].ret \in {Some(TRUE), Some(FALSE)}
            /\ th[t].ret = Some(FALSE) =>
                  /\ clock > ExtendBase
                  /\ th[t].v = None \/ th[t].now > th[t].v[1].expires
                  /\ \/ last.key \notin DOMAIN inner
                     \/ /\ th[u].ret = Some(TRUE)
                        /\ inner[last.key] = WrittenBack(u)
            /\ (th[t].ret = Some(TRUE) /\ th[u].ret = Some(TRUE)) =>
                  /\ last.key \in DOMAIN inner
                  /\ inner[last.key].value = last.pre[last.key].value
                  /\ inner[last.key] \in {WrittenBack(t), WrittenBack(u)}
                  /\ (/\ th[t].v[1].expires = ExtendBase
                      /\ th[u].v[1].expires = ExtendBase) =>
                        inner[last.key].expires \in
                           {ExtendBase + th[t].lifetime,
                            ExtendBase + th[u].lifetime}
                  /\ th[u].v[1].expires # ExtendBase =>
                        /\ th[u].v[1].expires = ExtendBase + th[t].lifetime
                        /\ inner[last.key].expires =
                              ExtendBase + th[t].lifetime + th[u].lifetime

\* Both extends by 1 read deadline D and returned true, and the deadline is
\* D+1: one extension is lost.
C21_Witness ==
    /\ ExtendsDone
    /\ \A t \in Threads : th[t].ret = Some(TRUE) /\ th[t].lifetime = 1
    /\ \A t \in Threads : th[t].v[1].expires = ExtendBase
    /\ inner[last.key].expires = ExtendBase + 1

\* The calls that take a key.
KeyedOps ==
    {"insert", "get", "contains", "remove", "refresh", "extend",
     "get_value", "get_value_unchecked"}

\* Tables m and n agree on key j: in both or in neither, with the same value
\* and deadline.
SameAt(m, n, j) ==
    /\ j \in DOMAIN m <=> j \in DOMAIN n
    /\ j \in DOMAIN m => m[j] = n[j]

\* The tables a call with key k can leave when it runs alone on the table m
\* at clock value now.
KeyedResults(m, k, now) ==
    {insert(m, k, val, l, now).map : val \in Vals, l \in Lifetimes}
    \cup {refresh(m, k, l, now).map : l \in Lifetimes}
    \cup {extend(m, k, l, now).map : l \in Lifetimes}
    \cup {get(m, k, now).map, contains(m, k, now).map, remove(m, k, now).map,
          get_value(m, k, now).map, get_value_unchecked(m, k).map}

\* C22: a call with key k, run alone on any table, leaves every entry of
\* another key as it is; and in concurrent runs each step of a thread inside
\* a call with key k leaves every entry of another key as it is, expired or
\* not.
C22_OtherKeysUntouched ==
    /\ [](\A k \in Keys : \A n \in KeyedResults(inner, k, clock) :
             \A j \in Keys \ {k} : SameAt(n, inner, j))
    /\ [][\A t \in Threads :
             (th'[t] # th[t] /\ th[t].op \in KeyedOps) =>
                 \A j \in Keys \ {th[t].key} : SameAt(inner', inner, j)]_vars

\* A get has found its key expired and removed it, a remove of the same key
\* has run too, and the expired entry of the other key is still there.
C22_Witness ==
    /\ AllDone
    /\ \E t, u \in Threads, j \in DOMAIN inner :
          /\ t # u
          /\ th[t].op = "get"
          /\ th[t].v # None
          /\ th[t].ret = Some(None)
          /\ th[u].op = "remove"
          /\ th[u].key = th[t].key
          /\ j # th[t].key
          /\ th[t].key \notin DOMAIN inner
          /\ clock > inner[j].expires

====
